---- MODULE Spec2Model ----
(***************************************************************************)
(* Heston training-data generator: the Fourier batch run (fourier.py), its *)
(* Latin-Hypercube parameter scaling, and the chunked CSV filter           *)
(* (filter.py).                                                            *)
(*                                                                         *)
(* Numbers are IEEE-754 binary64 values, as Python float and numpy.float64 *)
(* are: a finite non-zero value is sign, a 53-bit mantissa and an exponent *)
(* (value = man * 2^exp), and every arithmetic operation rounds to nearest,*)
(* ties to even.  Mantissas do not fit the checker's machine integers, so  *)
(* they are kept as little-endian sequences of 15-bit limbs.               *)
(***************************************************************************)
EXTENDS Integers, Sequences, FiniteSets, TLC

(***************************************************************************)
(* Natural numbers of arbitrary size: little-endian limb sequences, the    *)
(* last limb non-zero, zero being << >>.                                   *)
(***************************************************************************)
LimbBits == 15
Base == 2^LimbBits
MantBits == 53

Rest(a) == IF a = <<>> THEN <<>> ELSE Tail(a)
Low(a) == IF a = <<>> THEN 0 ELSE Head(a)

RECURSIVE Trim(_)
Trim(a) ==
    IF a = <<>> THEN <<>>
    ELSE IF a[Len(a)] = 0 THEN Trim(SubSeq(a, 1, Len(a) - 1)) ELSE a

RECURSIVE AddC(_, _, _)
AddC(a, b, c) ==
    IF a = <<>> /\ b = <<>> THEN (IF c = 0 THEN <<>> ELSE <<c>>)
    ELSE LET t == Low(a) + Low(b) + c
         IN  <<t % Base>> \o AddC(Rest(a), Rest(b), t \div Base)

BigAdd(a, b) == AddC(a, b, 0)

RECURSIVE SubB(_, _, _)
SubB(a, b, br) ==
    IF a = <<>> THEN <<>>
    ELSE LET t == Head(a) - Low(b) - br
         IN  <<IF t < 0 THEN t + Base ELSE t>>
                 \o SubB(Tail(a), Rest(b), IF t < 0 THEN 1 ELSE 0)

\* a - b for a >= b
BigSub(a, b) == Trim(SubB(a, b, 0))

RECURSIVE CmpFrom(_, _, _)
CmpFrom(a, b, i) ==
    IF i = 0 THEN 0
    ELSE IF a[i] > b[i] THEN 1
    ELSE IF a[i] < b[i] THEN -1
    ELSE CmpFrom(a, b, i - 1)

\* -1, 0, 1 as a < b, a = b, a > b
BigCmp(a, b) ==
    IF Len(a) > Len(b) THEN 1
    ELSE IF Len(a) < Len(b) THEN -1
    ELSE CmpFrom(a, b, Len(a))

RECURSIVE MulSmallC(_, _, _)
MulSmallC(a, d, c) ==
    IF a = <<>> THEN (IF c = 0 THEN <<>> ELSE <<c>>)
    ELSE LET t == Head(a) * d + c
         IN  <<t % Base>> \o MulSmallC(Tail(a), d, t \div Base)

\* a * d for 0 <= d < Base
MulSmall(a, d) == Trim(MulSmallC(a, d, 0))

RECURSIVE BigMul(_, _)
BigMul(a, b) ==
    IF a = <<>> \/ b = <<>> THEN <<>>
    ELSE LET hi == BigMul(Tail(a), b)
         IN  BigAdd(MulSmall(b, Head(a)),
                    IF hi = <<>> THEN <<>> ELSE <<0>> \o hi)

Zeros(n) == [i \in 1..n |-> 0]

\* a * 2^n
BigShl(a, n) ==
    IF a = <<>> THEN <<>>
    ELSE Zeros(n \div LimbBits) \o MulSmall(a, 2^(n % LimbBits))

\* floor(a / 2^n)
BigShr(a, n) ==
    LET q == n \div LimbBits
        r == n % LimbBits
        b == IF q >= Len(a) THEN <<>> ELSE SubSeq(a, q + 1, Len(a))
    IN  Trim([i \in 1..Len(b) |->
                 (b[i] \div 2^r)
                 + (IF i < Len(b) THEN (b[i + 1] % 2^r) * 2^(LimbBits - r)
                    ELSE 0)])

RECURSIVE SmallBitLen(_)
SmallBitLen(x) == IF x = 0 THEN 0 ELSE 1 + SmallBitLen(x \div 2)

BitLen(a) ==
    IF a = <<>> THEN 0
    ELSE (Len(a) - 1) * LimbBits + SmallBitLen(a[Len(a)])

\* bit i of a (bit 0 the lowest)
BigBit(a, i) ==
    LET k == i \div LimbBits + 1
    IN  IF k > Len(a) THEN 0 ELSE (a[k] \div 2^(i % LimbBits)) % 2

\* whether the n lowest bits of a are all zero
LowBitsZero(a, n) ==
    LET q == n \div LimbBits
        r == n % LimbBits
    IN  /\ \A k \in 1..q : k > Len(a) \/ a[k] = 0
        /\ (r = 0 \/ q + 1 > Len(a) \/ a[q + 1] % 2^r = 0)

\* the largest q <= guess with q * d <= r
RECURSIVE QFix(_, _, _)
QFix(r, d, guess) ==
    IF BigCmp(MulSmall(d, guess), r) > 0 THEN QFix(r, d, guess - 1) ELSE guess

\* long division of n by d, limb i of n downwards, for d with its top limb
\* at least Base / 2, so that the quotient limb guessed from the two top
\* limbs of the remainder is at most 2 too large: <<quotient, remainder>>
RECURSIVE DivLimbs(_, _, _, _, _)
DivLimbs(n, d, i, rem, q) ==
    IF i = 0 THEN <<Trim(q), rem>>
    ELSE LET r == Trim(<<n[i]>> \o rem)
             k == Len(d)
             top2 == (IF Len(r) > k THEN r[k + 1] ELSE 0) * Base
                     + (IF Len(r) >= k THEN r[k] ELSE 0)
             t == top2 \div d[k]
             qd == QFix(r, d, IF t > Base - 1 THEN Base - 1 ELSE t)
             r1 == BigSub(r, MulSmall(d, qd))
         IN  IF Len(r1) >= 0   \* evaluate before descending
             THEN DivLimbs(n, d, i - 1, r1, <<qd>> \o q)
             ELSE <<q, r1>>

\* <<floor(n / d), n mod d>> for d # 0
BigDivMod(n, d) ==
    LET sh == Len(d) * LimbBits - BitLen(d)
        qr == DivLimbs(BigShl(n, sh), BigShl(d, sh), Len(BigShl(n, sh)),
                       <<>>, <<>>)
    IN  <<qr[1], BigShr(qr[2], sh)>>

(***************************************************************************)
(* binary64 values.                                                        *)
(***************************************************************************)
NaN == [cls |-> "nan", sign |-> 0, man |-> <<>>, exp |-> 0]
Inf(s) == [cls |-> "inf", sign |-> s, man |-> <<>>, exp |-> 0]
Zero(s) == [cls |-> "zero", sign |-> s, man |-> <<>>, exp |-> 0]
Num(s, m, e) == [cls |-> "num", sign |-> s, man |-> m, exp |-> e]

RECURSIVE HexVal(_, _)
HexVal(digits, acc) ==
    IF digits = <<>> THEN acc
    ELSE HexVal(Tail(digits),
                BigAdd(MulSmall(acc, 16),
                       IF Head(digits) = 0 THEN <<>> ELSE <<Head(digits)>>))

\* the value float.fromhex writes as  (-)0x1.ddddddddddddd p e : the 14 hex
\* digits of the mantissa, leading 1 included, and the binary exponent
Dbl(s, digits, e) == Num(s, HexVal(digits, <<>>), e - (MantBits - 1))

\* round the exact value (-1)^s * M * 2^E (plus a little, when sticky) to
\* binary64: nearest, ties to even, to 53 significant bits or, below the
\* normal range, to a multiple of 2^-1074; past the largest finite value,
\* infinity.  A subnormal result is kept with its mantissa shifted up to 53
\* bits, so that man * 2^exp is its value like any other's.
RoundPack(s, M, E, sticky) ==
    LET L == BitLen(M)
        sh == IF L - MantBits > -1074 - E THEN L - MantBits ELSE -1074 - E
        q == BigShr(M, sh)
        guard == BigBit(M, sh - 1)
        rest == sticky \/ ~LowBitsZero(M, sh - 1)
        up == guard = 1 /\ (rest \/ BigBit(q, 0) = 1)
        q1 == IF up THEN BigAdd(q, <<1>>) ELSE q
        L1 == BitLen(q1)
    IN  IF sh <= 0
        THEN IF M = <<>> THEN Zero(s)
             ELSE IF E + L - 1 > 1023 THEN Inf(s)
             ELSE Num(s, BigShl(M, MantBits - L), E - (MantBits - L))
        ELSE IF q1 = <<>> THEN Zero(s)
        ELSE IF E + sh + L1 - 1 > 1023 THEN Inf(s)
        ELSE IF L1 > MantBits THEN Num(s, BigShr(q1, 1), E + sh + 1)
        ELSE Num(s, BigShl(q1, MantBits - L1), E + sh - (MantBits - L1))

fl_neg(a) == IF a.cls = "nan" THEN a ELSE [a EXCEPT !.sign = 1 - a.sign]

fl_add(a, b) ==
    IF a.cls = "nan" \/ b.cls = "nan" THEN NaN
    ELSE IF a.cls = "inf"
         THEN (IF b.cls = "inf" /\ b.sign # a.sign THEN NaN ELSE a)
    ELSE IF b.cls = "inf" THEN b
    ELSE IF a.cls = "zero"
         THEN (IF b.cls = "zero"
               THEN Zero(IF a.sign = 1 /\ b.sign = 1 THEN 1 ELSE 0)
               ELSE b)
    ELSE IF b.cls = "zero" THEN a
    ELSE LET e == IF a.exp < b.exp THEN a.exp ELSE b.exp
             Ma == BigShl(a.man, a.exp - e)
             Mb == BigShl(b.man, b.exp - e)
             c == BigCmp(Ma, Mb)
         IN  IF a.sign = b.sign THEN RoundPack(a.sign, BigAdd(Ma, Mb), e, FALSE)
             ELSE IF c = 0 THEN Zero(0)
             ELSE IF c > 0 THEN RoundPack(a.sign, BigSub(Ma, Mb), e, FALSE)
             ELSE RoundPack(b.sign, BigSub(Mb, Ma), e, FALSE)

fl_sub(a, b) == fl_add(a, fl_neg(b))

fl_mul(a, b) ==
    LET s == (a.sign + b.sign) % 2
    IN  IF a.cls = "nan" \/ b.cls = "nan" THEN NaN
        ELSE IF a.cls = "inf" \/ b.cls = "inf"
             THEN (IF a.cls = "zero" \/ b.cls = "zero" THEN NaN ELSE Inf(s))
        ELSE IF a.cls = "zero" \/ b.cls = "zero" THEN Zero(s)
        ELSE RoundPack(s, BigMul(a.man, b.man), a.exp + b.exp, FALSE)

\* numpy's division: x/0 is an infinity and 0/0 a NaN, with a warning
fl_div(a, b) ==
    LET s == (a.sign + b.sign) % 2
    IN  IF a.cls = "nan" \/ b.cls = "nan" THEN NaN
        ELSE IF a.cls = "inf" THEN (IF b.cls = "inf" THEN NaN ELSE Inf(s))
        ELSE IF b.cls = "inf" THEN Zero(s)
        ELSE IF b.cls = "zero" THEN (IF a.cls = "zero" THEN NaN ELSE Inf(s))
        ELSE IF a.cls = "zero" THEN Zero(s)
        ELSE LET qr == BigDivMod(BigShl(a.man, MantBits + 3), b.man)
             IN  RoundPack(s, qr[1], a.exp - b.exp - (MantBits + 3),
                           qr[2] # <<>>)

\* a < b as IEEE comparison: false whenever a NaN is involved
fl_lt(a, b) ==
    LET MagLt(x, y) ==   \* |x| < |y| for finite non-zero x, y
            x.exp < y.exp \/ (x.exp = y.exp /\ BigCmp(x.man, y.man) < 0)
        Neg(x) == x.cls # "zero" /\ x.sign = 1
        Pos(x) == x.cls # "zero" /\ x.sign = 0
    IN  IF a.cls = "nan" \/ b.cls = "nan" THEN FALSE
        ELSE IF Neg(a) /\ ~Neg(b) THEN TRUE
        ELSE IF ~Pos(a) /\ Pos(b) THEN TRUE
        ELSE IF Pos(a) /\ Pos(b)
             THEN (IF a.cls = "inf" THEN FALSE
                   ELSE IF b.cls = "inf" THEN TRUE ELSE MagLt(a, b))
        ELSE IF Neg(a) /\ Neg(b)
             THEN (IF b.cls = "inf" THEN FALSE
                   ELSE IF a.cls = "inf" THEN TRUE ELSE MagLt(b, a))
        ELSE FALSE

fl_gt(a, b) == fl_lt(b, a)

fl_le(a, b) == a.cls # "nan" /\ b.cls # "nan" /\ ~fl_lt(b, a)

(***************************************************************************)
(* Bounds of the model.                                                    *)
(***************************************************************************)
MaxN == 2          \* largest sample count explored with every quad result
MaxLongN == 11     \* largest sample count of the long runs (progress lines)
MaxRows == 3       \* most data rows of the filter's input file
MaxSamples == 3    \* most rows asked of generate_lhs_samples on its own
chunksize == 2     \* rows per chunk of the filter (10000 in filter.py:11)

(***************************************************************************)
(* The literals of fourier.py and filter.py, as float.hex() prints them.   *)
(***************************************************************************)
f_0_0 == Zero(0)
f_0_05 == Dbl(0, <<1,9,9,9,9,9,9,9,9,9,9,9,9,10>>, -5)      \* 0x1.999999999999ap-5
f_0_2 == Dbl(0, <<1,9,9,9,9,9,9,9,9,9,9,9,9,10>>, -3)       \* 0x1.999999999999ap-3
f_0_1 == Dbl(0, <<1,9,9,9,9,9,9,9,9,9,9,9,9,10>>, -4)       \* 0x1.999999999999ap-4
f_0_5 == Dbl(0, <<1,0,0,0,0,0,0,0,0,0,0,0,0,0>>, -1)        \* 0x1.0000000000000p-1
f_0_6 == Dbl(0, <<1,3,3,3,3,3,3,3,3,3,3,3,3,3>>, -1)        \* 0x1.3333333333333p-1
f_0_66 == Dbl(0, <<1,5,1,14,11,8,5,1,14,11,8,5,1,15>>, -1)  \* 0x1.51eb851eb851fp-1
f_m0_95 == Dbl(1, <<1,14,6,6,6,6,6,6,6,6,6,6,6,6>>, -1)     \* -0x1.e666666666666p-1
f_1_0 == Dbl(0, <<1,0,0,0,0,0,0,0,0,0,0,0,0,0>>, 0)         \* 0x1.0000000000000p+0
f_1_4 == Dbl(0, <<1,6,6,6,6,6,6,6,6,6,6,6,6,6>>, 0)         \* 0x1.6666666666666p+0
f_2_0 == Dbl(0, <<1,0,0,0,0,0,0,0,0,0,0,0,0,0>>, 1)         \* 0x1.0000000000000p+1
np_pi == Dbl(0, <<1,9,2,1,15,11,5,4,4,4,2,13,1,8>>, 1)      \* 0x1.921fb54442d18p+1

\* j / 2^k for an integer 0 <= j < Base: exact
Dyadic(j, k) == IF j = 0 THEN Zero(0) ELSE RoundPack(0, <<j>>, -k, FALSE)

(***************************************************************************)
(* generate_lhs_samples (fourier.py:46-73).  The parameter ranges, in the  *)
(* order of the columns of the result.                                     *)
(***************************************************************************)
m_min == f_0_6
m_max == f_1_4
tau_min == f_0_1
tau_max == f_1_4
r_min == f_0_0
r_max == f_0_1
rho_min == f_m0_95
rho_max == f_0_0
kappa_min == f_0_0
kappa_max == f_2_0
theta_min == f_0_0
theta_max == f_0_5
sigma_min == f_0_0
sigma_max == f_0_5
v0_min == f_0_05
v0_max == f_0_5

\* x_min + lhs_samples[:, c] * (x_max - x_min), one element
Scale(lo, hi, u) == fl_add(lo, fl_mul(u, fl_sub(hi, lo)))

\* lhs_samples: the n x 8 matrix the sampler drew; the result: n rows
\* (m, tau, r, rho, kappa, theta, sigma, v0)
generate_lhs_samples(lhs) ==
    [i \in 1..Len(lhs) |->
        << Scale(m_min, m_max, lhs[i][1]),
           Scale(tau_min, tau_max, lhs[i][2]),
           Scale(r_min, r_max, lhs[i][3]),
           Scale(rho_min, rho_max, lhs[i][4]),
           Scale(kappa_min, kappa_max, lhs[i][5]),
           Scale(theta_min, theta_max, lhs[i][6]),
           Scale(sigma_min, sigma_max, lhs[i][7]),
           Scale(v0_min, v0_max, lhs[i][8]) >>]

(***************************************************************************)
(* What qmc.LatinHypercube(d=8).random(n) may return.  scipy draws U in    *)
(* [0, 1) and a permutation perm of 1..n for every column and returns      *)
(* (perm - U) / n: n rows of 8 draws in (0, 1], every column holding one   *)
(* draw in each interval ((k-1)/n, k/n].  1.0 is a draw (U = 0, perm = n); *)
(* 0.0 is not.  The draws explored: the smallest draw of n = 1, 2^-53,     *)
(* then 1/4, 1/2, 3/4, the largest draw below one 1 - 2^-53, and 1.        *)
(***************************************************************************)
UnitGrid ==
    << Dyadic(1, 53), Dyadic(1, 2), Dyadic(1, 1), Dyadic(3, 2),
       Dbl(0, <<1,15,15,15,15,15,15,15,15,15,15,15,15,15>>, -1),
       Dyadic(1, 0) >>

\* rows: the same draw in all 8 columns, and the grid rotated along the row
UnitRows ==
    {[j \in 1..8 |-> UnitGrid[g]] : g \in 1..Len(UnitGrid)}
    \cup {[j \in 1..8 |-> UnitGrid[((j + k) % Len(UnitGrid)) + 1]] :
             k \in 1..Len(UnitGrid)}

\* ceil(u * n) - 1 for a draw 0 < u <= 1: the k with k/n < u <= (k+1)/n
Stratum(u, n) ==
    LET un == MulSmall(u.man, n)
        whole == Low(BigShr(un, 0 - u.exp))
    IN  IF LowBitsZero(un, 0 - u.exp) THEN whole - 1 ELSE whole

IsLatin(lhs, n) ==
    \A j \in 1..8 : \A k \in 0..(n - 1) :
        \E i \in 1..n : Stratum(lhs[i][j], n) = k

\* any n x 8 matrix of the rows explored
FreeDraws(n) == [1..n -> UnitRows]

LatinDraws(n) == {lhs \in FreeDraws(n) : IsLatin(lhs, n)}

\* for a long run: one matrix, row i drawing floor(16 i / n) / 16 in all
\* columns, the last sixteenth in ((i-1)/n, i/n]; the last row draws 1
LongDraws(n) ==
    {[i \in 1..n |-> [j \in 1..8 |-> Dyadic((16 * i) \div n, 4)]]}

(***************************************************************************)
(* heston_call_price (fourier.py:36-44).  scipy's quad evaluates           *)
(* heston_integrand on (0, 100) and returns the integral; when it gives up *)
(* (limit = 100 subdivisions, round-off) it issues an IntegrationWarning   *)
(* and returns its estimate all the same.  Its answer is an input here:    *)
(* integral is what it returned, converged whether it did so silently.     *)
(***************************************************************************)
Quad(x, c) == [integral |-> x, converged |-> c]

I_neg == fl_neg(f_2_0)                                          \* price < 0
I_zero == Dbl(1, <<1,9,2,1,15,11,5,4,4,4,2,13,1,8>>, 0)         \* price = 0.0
I_tiny == Dbl(1, <<1,9,2,1,15,11,5,4,4,4,2,13,1,7>>, 0)         \* price = 2^-54
I_below == Dbl(0, <<1,0,1,5,11,15,9,2,1,7,2,7,1,9>>, -1)        \* 0.6599999999999999
I_66 == Dbl(0, <<1,0,1,5,11,15,9,2,1,7,2,7,1,10>>, -1)          \* price = 0.66

QuadResults ==
    {Quad(x, TRUE) : x \in {I_neg, I_zero, I_tiny, I_below, I_66, NaN,
                            Inf(0), Inf(1)}}
    \cup {Quad(f_0_0, FALSE)}

LongResults == {Quad(f_0_0, TRUE), Quad(f_1_0, TRUE)}

\* 1 / np.pi
inv_pi == fl_div(f_1_0, np_pi)

heston_call_price(S0, K, t, r, kappa, theta, sigma, rho, v0, quad) ==
    fl_add(fl_mul(S0, f_0_5), fl_mul(inv_pi, quad.integral))

(***************************************************************************)
(* save_to_csv (fourier.py:75-85).  A file is its lines; a field of a data *)
(* line is the float whose str() csv.writer wrote.                         *)
(***************************************************************************)
header ==
    << "moneyness", "tau", "r", "rho", "kappa", "theta", "sigma",
       "initial_variance", "option_price" >>

HeaderLine(names) == [kind |-> "header", fields |-> names]
DataLine(row) == [kind |-> "row", fields |-> row]
NoFile == [exists |-> FALSE, lines |-> <<>>]

\* save_to_csv losing the last row
save_to_csv_short(data) ==
    [exists |-> TRUE,
     lines |-> <<HeaderLine(header)>>
               \o [i \in 1..(Len(data) - 1) |-> DataLine(data[i])]]

save_to_csv(data) ==
    [exists |-> TRUE,
     lines |-> <<HeaderLine(header)>> \o [i \in 1..Len(data) |-> DataLine(data[i])]]

(***************************************************************************)
(* main (fourier.py:87-120).                                               *)
(***************************************************************************)
VARIABLES
    pc,            \* where main is
    N,             \* int(input(...))
    lhs_samples,   \* what the sampler drew
    param_sets,
    idx,           \* samples the loop has finished
    result_data,
    file,          \* Fourier_Prices.csv
    stdout,        \* the lines printed
    calls,         \* history: the calls of heston_call_price, in order
    sampler_calls, \* history: the calls of generate_lhs_samples
    saves,         \* history: the calls of save_to_csv
    f_pc,          \* where filter.py is
    f_input,       \* the data rows of parameter_option_prices.csv
    f_pos,         \* rows the chunk reader has handed out
    f_chunks,      \* history: chunks handed out
    f_header,      \* filter.py's header flag
    total_filtered,
    out_file,      \* filtered_option_prices.csv
    f_stale        \* history: whether out_file existed before the run

fourierVars ==
    << pc, N, lhs_samples, param_sets, idx, result_data, file, stdout, calls,
       sampler_calls, saves >>
filterVars ==
    << f_pc, f_input, f_pos, f_chunks, f_header, total_filtered, out_file,
       f_stale >>
vars == << fourierVars, filterVars >>

S0 == f_1_0

\* InRange with the upper bound let in: 0.0 < price <= 0.66
InRangeClosed(price) == fl_lt(f_0_0, price) /\ fl_le(price, f_0_66)

\* InRange by exclusion: not (price <= 0.0 or price >= 0.66), true of NaN
InRangeByExclusion(price) == ~fl_le(price, f_0_0) /\ ~fl_le(f_0_66, price)

\* 0.0 < price < 0.66
InRange(price) == fl_lt(f_0_0, price) /\ fl_lt(price, f_0_66)

\* Row in the order the pricer takes its arguments (rho after sigma)
RowInCallOrder(m, tau, r, rho, kappa, theta, sigma, v0, price) ==
    << m, tau, r, kappa, theta, sigma, rho, v0, price >>

Row(m, tau, r, rho, kappa, theta, sigma, v0, price) ==
    << m, tau, r, rho, kappa, theta, sigma, v0, price >>

\* NextIndex stepping over a sample
SkipIndex(i) == i + 2

\* enumerate: the index after idx
NextIndex(i) == i + 1

\* (idx + 1) % 10 == 0
ProgressDue(i) == (i + 1) % 10 = 0

Progress(done, total) == [kind |-> "processed", count |-> done, of |-> total]
ExecutionTime == [kind |-> "time", count |-> 0, of |-> 0]
\* Saved printing the number of samples in place of the number of rows
SavedProcessed(data) == [kind |-> "saved", count |-> N, of |-> 0]

Saved(data) == [kind |-> "saved", count |-> Len(data), of |-> 0]

\* a file a previous run left behind
StaleFile == save_to_csv(<< [i \in 1..9 |-> f_0_5] >>)

FilterIdle ==
    /\ f_pc = "off"
    /\ f_input = <<>>
    /\ f_pos = 0
    /\ f_chunks = 0
    /\ f_header = TRUE
    /\ total_filtered = 0
    /\ out_file = NoFile
    /\ f_stale = FALSE

FourierStart(at) ==
    /\ pc = at
    /\ lhs_samples = <<>>
    /\ param_sets = <<>>
    /\ idx = 0
    /\ result_data = <<>>
    /\ file \in {NoFile, StaleFile}
    /\ stdout = <<>>
    /\ calls = <<>>
    /\ sampler_calls = 0
    /\ saves = 0

Init == FourierStart("input") /\ N = 0 /\ FilterIdle

\* N = int(input(...)) with an integer typed
ReadN(counts) ==
    /\ pc = "input"
    /\ \E n \in counts : N' = n
    /\ pc' = "sample"
    /\ UNCHANGED << lhs_samples, param_sets, idx, result_data, file, stdout,
                    calls, sampler_calls, saves, filterVars >>

\* int() of a text that is no integer raises ValueError
ReadNFail ==
    /\ pc = "input"
    /\ pc' = "ValueError"
    /\ UNCHANGED << N, lhs_samples, param_sets, idx, result_data, file, stdout,
                    calls, sampler_calls, saves, filterVars >>

\* param_sets = generate_lhs_samples(N), N >= 0 (for N = 0, no rows)
Sample(draws) ==
    /\ pc = "sample"
    /\ N >= 0
    /\ \E lhs \in draws :
          /\ lhs_samples' = lhs
          /\ param_sets' = generate_lhs_samples(lhs)
    /\ sampler_calls' = sampler_calls + 1
    /\ pc' = "loop"
    /\ UNCHANGED << N, idx, result_data, file, stdout, calls, saves,
                    filterVars >>

\* lhs_sampler.random(n=N) raises ValueError for a negative N
SampleFail ==
    /\ pc = "sample"
    /\ N < 0
    /\ sampler_calls' = sampler_calls + 1
    /\ pc' = "ValueError"
    /\ UNCHANGED << N, lhs_samples, param_sets, idx, result_data, file, stdout,
                    calls, saves, filterVars >>

\* one pass of the loop over param_sets
LoopBody(results) ==
    /\ pc = "loop"
    /\ idx < Len(param_sets)
    /\ LET params == param_sets[idx + 1]
           m == params[1]
           tau == params[2]
           r == params[3]
           rho == params[4]
           kappa == params[5]
           theta == params[6]
           sigma == params[7]
           v0 == params[8]
       IN  \E K \in {fl_div(S0, m)} :
           \E quad \in results :
           \E price \in {heston_call_price(S0, K, tau, r, kappa, theta, sigma,
                                           rho, v0, quad)} :
               /\ calls' = Append(calls,
                      [args |-> <<S0, K, tau, r, kappa, theta, sigma, rho, v0>>,
                       converged |-> quad.converged,
                       price |-> price])
               /\ result_data' =
                      IF InRange(price)
                      THEN Append(result_data,
                                  Row(m, tau, r, rho, kappa, theta, sigma, v0,
                                      price))
                      ELSE result_data
    /\ stdout' = IF ProgressDue(idx)
                 THEN Append(stdout, Progress(idx + 1, N))
                 ELSE stdout
    /\ idx' = NextIndex(idx)
    /\ UNCHANGED << pc, N, lhs_samples, param_sets, file, sampler_calls, saves,
                    filterVars >>

\* the loop is over: save_to_csv(result_data, "Fourier_Prices.csv")
Save ==
    /\ pc = "loop"
    /\ idx >= Len(param_sets)
    /\ file' = save_to_csv(result_data)
    /\ saves' = saves + 1
    /\ pc' = "report"
    /\ UNCHANGED << N, lhs_samples, param_sets, idx, result_data, stdout, calls,
                    sampler_calls, filterVars >>

\* the two closing prints
Report ==
    /\ pc = "report"
    /\ stdout' = stdout \o << ExecutionTime, Saved(result_data) >>
    /\ pc' = "done"
    /\ UNCHANGED << N, lhs_samples, param_sets, idx, result_data, file, calls,
                    sampler_calls, saves, filterVars >>

Counts == (0 - 1)..MaxN

Next ==
    \/ ReadN(Counts)
    \/ ReadNFail
    \/ Sample(LatinDraws(N))
    \/ SampleFail
    \/ LoopBody(QuadResults)
    \/ Save
    \/ Report

Spec == Init /\ [][Next]_vars

(***************************************************************************)
(* Long runs: sample counts up to MaxLongN, one sample matrix per count    *)
(* and two quad results (price 0.5, accepted; price 0.818..., rejected).   *)
(***************************************************************************)
NextLong ==
    \/ ReadN(1..MaxLongN)
    \/ Sample(LongDraws(N))
    \/ LoopBody(LongResults)
    \/ Save
    \/ Report

SpecLong == Init /\ [][NextLong]_vars

(***************************************************************************)
(* generate_lhs_samples on its own, on every matrix the sampler may draw.  *)
(***************************************************************************)
InitLHS == FourierStart("sample") /\ N \in 1..MaxSamples /\ FilterIdle

NextLHS == Sample(LatinDraws(N))

SpecLHS == InitLHS /\ [][NextLHS]_vars

(***************************************************************************)
(* filter.py.  A row of the input is its moneyness, its initial_variance   *)
(* and the rest of its fields, which the filter only copies: rest is the   *)
(* row's number in the input.  pd.read_csv(chunksize=...) hands out the    *)
(* rows chunksize at a time, and one empty chunk for a file of no rows.    *)
(***************************************************************************)
columns ==
    << "moneyness", "initial_variance", "tau", "r", "rho", "kappa", "theta",
       "sigma", "option_price" >>

InputRow(mny, var, k) ==
    [moneyness |-> mny, initial_variance |-> var, rest |-> k]

\* (moneyness > 0.6) & (moneyness < 1.4) & (initial_variance > 0.05)
\*   & (initial_variance < 0.5)
Keep(row) ==
    /\ fl_gt(row.moneyness, f_0_6)
    /\ fl_lt(row.moneyness, f_1_4)
    /\ fl_gt(row.initial_variance, f_0_05)
    /\ fl_lt(row.initial_variance, f_0_5)

\* WriteMode that never truncates
AppendAlways(hdr) == "a"

\* 'a' if not header else 'w'
WriteMode(hdr) == IF hdr THEN "w" ELSE "a"

\* DataFrame.to_csv(output_filename, mode=..., header=..., index=False)
to_csv(old, rows, mode, hdr) ==
    [exists |-> TRUE,
     lines |-> (IF mode = "w" THEN <<>> ELSE old.lines)
               \o (IF hdr THEN <<HeaderLine(columns)>> ELSE <<>>)
               \o [i \in 1..Len(rows) |-> DataLine(rows[i])]]

FourierIdle == FourierStart("off") /\ N = 0 /\ file = NoFile

InputValues ==
    {<<mny, var>> : mny \in {f_0_6, f_1_0, f_1_4},
                    var \in {f_0_05, f_0_2, f_0_5}}

Inputs ==
    UNION {{[i \in 1..n |-> InputRow(v[i][1], v[i][2], i)] :
               v \in [1..n -> InputValues]} : n \in 0..MaxRows}

StaleOutput ==
    [exists |-> TRUE,
     lines |-> <<HeaderLine(columns), DataLine(InputRow(f_1_0, f_0_2, 0))>>]

InitFilter ==
    /\ FourierIdle
    /\ f_pc = "loop"
    /\ f_input \in Inputs
    /\ f_pos = 0
    /\ f_chunks = 0
    /\ f_header = TRUE
    /\ total_filtered = 0
    /\ f_stale \in BOOLEAN
    /\ out_file = IF f_stale THEN StaleOutput ELSE NoFile

\* one pass of the loop over the chunks
FilterChunk ==
    /\ f_pc = "loop"
    /\ f_pos < Len(f_input) \/ f_chunks = 0
    /\ LET last == IF f_pos + chunksize < Len(f_input)
                   THEN f_pos + chunksize ELSE Len(f_input)
           chunk == SubSeq(f_input, f_pos + 1, last)
           filtered_chunk == SelectSeq(chunk, Keep)
       IN  /\ out_file' = to_csv(out_file, filtered_chunk, WriteMode(f_header),
                                 f_header)
           /\ total_filtered' = total_filtered + Len(filtered_chunk)
           /\ f_pos' = last
    /\ f_header' = FALSE
    /\ f_chunks' = f_chunks + 1
    /\ UNCHANGED << f_pc, f_input, f_stale, fourierVars >>

\* the chunks are exhausted: the closing prints
FilterEnd ==
    /\ f_pc = "loop"
    /\ f_pos >= Len(f_input)
    /\ f_chunks > 0
    /\ f_pc' = "done"
    /\ UNCHANGED << f_input, f_pos, f_chunks, f_header, total_filtered,
                    out_file, f_stale, fourierVars >>

NextFilter == FilterChunk \/ FilterEnd

SpecFilter == InitFilter /\ [][NextFilter]_vars

(***************************************************************************)
(* The claims.                                                             *)
(***************************************************************************)
Finite(x) == x.cls \in {"zero", "num"}

\* 0.0 < p < 0.66, both strict, said without the comparison InRange uses
Inside(p) ==
    /\ p.cls # "nan"
    /\ ~fl_le(p, f_0_0)
    /\ ~fl_le(f_0_66, p)

\* the row sample k gives once priced
RowOfSample(k) == param_sets[k] \o <<calls[k].price>>

\* the rows of the samples 1..k whose price is inside, in sample order
RECURSIVE AcceptedRows(_)
AcceptedRows(k) ==
    IF k = 0 THEN <<>>
    ELSE IF Inside(calls[k].price)
         THEN Append(AcceptedRows(k - 1), RowOfSample(k))
         ELSE AcceptedRows(k - 1)

\* C1: a processed sample's row is in result_data if and only if its price
\* is strictly between 0.0 and 0.66 (0.0 and 0.66 themselves rejected), so
\* every row of result_data, and every row the run wrote to the file, has
\* its price strictly inside.
C1_OpenInterval ==
    /\ result_data = AcceptedRows(Len(calls))
    /\ \A i \in 1..Len(result_data) : Inside(result_data[i][9])
    /\ saves > 0 =>
          \A i \in 2..Len(file.lines) : Inside(file.lines[i].fields[9])

\* both boundary prices were computed and rejected, and the file written
C1_Witness ==
    /\ pc = "done"
    /\ N = 2
    /\ calls[1].price = f_0_66
    /\ calls[2].price = f_0_0
    /\ result_data = <<>>
    /\ Len(file.lines) = 1

\* C2 (as claimed): no row of a sample whose quadrature did not converge is
\* ever in the dataset or in the file.
C2_NonConvergedDropped ==
    \A k \in 1..Len(calls) :
        ~calls[k].converged =>
            /\ \A i \in 1..Len(result_data) : result_data[i] # RowOfSample(k)
            /\ saves > 0 =>
                  \A i \in 2..Len(file.lines) :
                      file.lines[i].fields # RowOfSample(k)

\* C3: a sample whose price is not finite is dropped and priced once only;
\* every sample's acceptance is decided by its own price alone; the run
\* never stops on an error once pricing has begun, and when done has priced
\* all N samples and written the file with the accepted ones.
C3_FailureIsolated ==
    /\ \A k \in 1..Len(calls) :
          ~Finite(calls[k].price) =>
              \A i \in 1..Len(result_data) : result_data[i] # RowOfSample(k)
    /\ result_data = AcceptedRows(Len(calls))
    /\ Len(calls) = idx
    /\ pc = "ValueError" => calls = <<>>
    /\ pc = "loop" => (idx <= N /\ Len(param_sets) = N)
    /\ pc = "done" =>
          /\ Len(calls) = N
          /\ saves = 1
          /\ file = save_to_csv(AcceptedRows(N))

\* a NaN price for the first sample, the second accepted and written
C3_Witness ==
    /\ pc = "done"
    /\ N = 2
    /\ calls[1].price = NaN
    /\ Len(result_data) = 1
    /\ Len(file.lines) = 2
    /\ file.lines[2].fields = RowOfSample(2)

\* C4 (as claimed): once a count below 1, or a text that is no integer, has
\* been typed, the sampler is never invoked, no price computed and the file
\* not written.
C4_BadCountStopsEarly ==
    (pc # "input" /\ N < 1) =>
        /\ sampler_calls = 0
        /\ calls = <<>>
        /\ saves = 0

C5_State ==
    /\ saves <= 1
    /\ saves = 0 => file \in {NoFile, StaleFile}
    /\ saves = 1 =>
          /\ pc \in {"report", "done"}
          /\ idx = N
          /\ Len(calls) = N
          /\ Len(file.lines) = 1 + Len(result_data)
          /\ file.lines[1] = HeaderLine(header)
          /\ \A i \in 1..Len(result_data) :
                /\ file.lines[i + 1].kind = "row"
                /\ Len(file.lines[i + 1].fields) = 9
                /\ file.lines[i + 1].fields = AcceptedRows(N)[i]
    /\ pc = "ValueError" => saves = 0

C5_Step ==
    /\ Len(result_data') >= Len(result_data)
    /\ SubSeq(result_data', 1, Len(result_data)) = result_data
    /\ file' # file => (pc = "loop" /\ idx = N /\ Len(calls) = N)

\* C5: the file is written at most once, only after all N samples are
\* processed, and then is the header followed by exactly the accepted rows,
\* each of 9 fields, in processing order; result_data only grows at its
\* end; a run that stopped early left the file as it was.
C5_NoPartialRows == []C5_State /\ [][C5_Step]_vars

\* two rows accepted, and written by the one save of the run
C5_Witness ==
    /\ pc = "done"
    /\ Len(result_data) = 2
    /\ Len(file.lines) = 3
    /\ saves = 1

C6_State ==
    /\ sampler_calls <= 1
    /\ pc \in {"loop", "report", "done"} =>
          /\ sampler_calls = 1
          /\ Len(param_sets) = N
    /\ Len(calls) = idx
    /\ pc \in {"report", "done"} => Len(calls) = N
    /\ \A k \in 1..Len(calls) :
          LET a == calls[k].args
              p == param_sets[k]
          IN  << a[3], a[4], a[8], a[5], a[6], a[7], a[9] >>
                  = << p[2], p[3], p[4], p[5], p[6], p[7], p[8] >>
    /\ \A i \in 1..Len(result_data) :
          \E k \in 1..Len(calls) :
              SubSeq(result_data[i], 1, 8) = param_sets[k]

C6_Step ==
    /\ pc # "sample" => param_sets' = param_sets
    /\ Len(calls') \in {Len(calls), Len(calls) + 1}
    /\ SubSeq(calls', 1, Len(calls)) = calls

\* C6: the sample set is generated once; call k of heston_call_price prices
\* sample k, so each of the N samples is priced exactly once, none skipped;
\* param_sets never changes after generation, and the parameters of an
\* accepted row are those of a priced sample.
C6_OncePerSample == []C6_State /\ [][C6_Step]_vars

\* a finished run of two samples, both priced
C6_Witness ==
    /\ pc = "done"
    /\ N = 2
    /\ Len(calls) = 2
    /\ param_sets[1] # param_sets[2]
    /\ Len(result_data) = 1

IsProcessedLine(l) == l.kind = "processed"
IsSavedLine(l) == l.kind = "saved"

\* C7 (as claimed): a finished run of N >= 1 samples has printed the count
\* of processed samples N, and an accepted count equal to the number of data
\* rows of the file.
C7_ReportsProcessedAndAccepted ==
    (pc = "done" /\ N >= 1) =>
        /\ \E i \in 1..Len(stdout) :
              IsProcessedLine(stdout[i]) /\ stdout[i].of = N
        /\ \E i \in 1..Len(stdout) :
              IsSavedLine(stdout[i])
              /\ stdout[i].count = Len(file.lines) - 1

\* C7 (amended): a finished run of N >= 1 samples ends its output with the
\* accepted count, which is the number of data rows of the file; N appears
\* only in the progress lines, one after every 10th sample, so a run of
\* fewer than 10 samples prints no count of processed samples at all.
C7_ReportsAccepted ==
    (pc = "done" /\ N >= 1) =>
        /\ stdout[Len(stdout)] = Saved(AcceptedRows(N))
        /\ stdout[Len(stdout)].count = Len(file.lines) - 1
        /\ Len(SelectSeq(stdout, IsSavedLine)) = 1
        /\ SelectSeq(stdout, IsProcessedLine)
              = [k \in 1..(N \div 10) |-> Progress(10 * k, N)]

\* a run of at least 10 samples, some accepted and some not
C7_Witness ==
    /\ pc = "done"
    /\ N > 10
    /\ \E i \in 1..Len(stdout) : stdout[i] = Progress(10, N)
    /\ Len(file.lines) - 1 \in 1..(N - 1)

Ranges ==
    << <<m_min, m_max>>, <<tau_min, tau_max>>, <<r_min, r_max>>,
       <<rho_min, rho_max>>, <<kappa_min, kappa_max>>,
       <<theta_min, theta_max>>, <<sigma_min, sigma_max>>,
       <<v0_min, v0_max>> >>

\* C8 (as claimed): for a matrix of draws all in [0, 1) the result is n
\* rows of 8 coordinates in the order (m, tau, r, rho, kappa, theta, sigma,
\* v0), each the value of min + u * (max - min) for its own range and in
\* the half-open range [min, max).
C8_HalfOpen ==
    (/\ pc = "loop"
     /\ \A i \in 1..N : \A j \in 1..8 :
           fl_le(f_0_0, lhs_samples[i][j]) /\ fl_lt(lhs_samples[i][j], f_1_0))
    =>
        /\ Len(param_sets) = N
        /\ \A i \in 1..N :
              /\ Len(param_sets[i]) = 8
              /\ \A j \in 1..8 :
                    /\ param_sets[i][j] =
                          fl_add(Ranges[j][1],
                                 fl_mul(lhs_samples[i][j],
                                        fl_sub(Ranges[j][2], Ranges[j][1])))
                    /\ fl_le(Ranges[j][1], param_sets[i][j])
                    /\ fl_lt(param_sets[i][j], Ranges[j][2])

\* C9: the file the run wrote starts with the header moneyness, tau, r,
\* rho, kappa, theta, sigma, initial_variance, option_price, once; every
\* other line has 9 fields, the first eight the parameters of one sample in
\* that order (moneyness first, initial_variance eighth) and the ninth the
\* price heston_call_price returned for that sample with K = S0 / m.
C9_ColumnsAligned ==
    saves > 0 =>
        /\ Len(file.lines) >= 1
        /\ file.lines[1].kind = "header"
        /\ file.lines[1].fields =
              << "moneyness", "tau", "r", "rho", "kappa", "theta", "sigma",
                 "initial_variance", "option_price" >>
        /\ \A i \in 2..Len(file.lines) :
              LET f == file.lines[i].fields
              IN  /\ file.lines[i].kind = "row"
                  /\ Len(f) = 9
                  /\ \E k \in 1..Len(calls) :
                        /\ f[1] = param_sets[k][1]
                        /\ f[8] = param_sets[k][8]
                        /\ SubSeq(f, 1, 8) = param_sets[k]
                        /\ f[9] = calls[k].price
                        /\ calls[k].args =
                              << f_1_0, fl_div(f_1_0, f[1]), f[2], f[3], f[5],
                                 f[6], f[7], f[4], f[8] >>

\* a written file of the header and two rows
C9_Witness ==
    /\ pc = "done"
    /\ saves = 1
    /\ Len(file.lines) = 3
    /\ file.lines[2].fields[1] # file.lines[3].fields[1]

\* lo < x < hi, both strict
StrictlyBetween(x, lo, hi) ==
    /\ x.cls # "nan"
    /\ ~fl_le(x, lo)
    /\ ~fl_le(hi, x)

\* 0.6 < moneyness < 1.4 and 0.05 < initial_variance < 0.5, all strict
Wanted(row) ==
    /\ StrictlyBetween(row.moneyness, f_0_6, f_1_4)
    /\ StrictlyBetween(row.initial_variance, f_0_05, f_0_5)

RECURSIVE WantedRows(_)
WantedRows(k) ==
    IF k = 0 THEN <<>>
    ELSE IF Wanted(f_input[k])
         THEN Append(WantedRows(k - 1), f_input[k])
         ELSE WantedRows(k - 1)

\* C10: once a chunk has been processed the output is the header, once,
\* followed by exactly the rows read so far with 0.6 < moneyness < 1.4 and
\* 0.05 < initial_variance < 0.5, in input order, nothing of an earlier
\* file left; total_filtered is the number of data rows written; the first
\* chunk turns the header flag off; chunks end where the next begins.
C10_ChunkedFilter ==
    /\ f_header = (f_chunks = 0)
    /\ f_chunks = 0 => (total_filtered = 0 /\ f_pos = 0)
    /\ f_chunks > 0 =>
          /\ out_file.exists
          /\ out_file.lines[1] = HeaderLine(columns)
          /\ Len(out_file.lines) = 1 + Len(WantedRows(f_pos))
          /\ \A i \in 1..Len(WantedRows(f_pos)) :
                out_file.lines[i + 1] = DataLine(WantedRows(f_pos)[i])
          /\ total_filtered = Len(out_file.lines) - 1
          /\ f_pos = (IF f_chunks * chunksize < Len(f_input)
                      THEN f_chunks * chunksize ELSE Len(f_input))
    /\ f_pc = "done" => f_pos = Len(f_input)

\* two chunks over an earlier file: rows kept from both, a row dropped
C10_Witness ==
    /\ f_pc = "done"
    /\ f_stale
    /\ f_chunks = 2
    /\ Len(f_input) = 3
    /\ total_filtered = 2
    /\ Wanted(f_input[1])
    /\ Wanted(f_input[3])

====
